---- MODULE Spec2Model ----
(***************************************************************************)
(* Balance calculation and settlement planning of the SplitWise backend.   *)
(*                                                                         *)
(* Amounts are exact rationals, held as integers in ticks: 0.01 of the     *)
(* currency is Scale ticks, and Scale is divisible by every split count    *)
(* the model uses, so amount / splitAmong.length is exact.                 *)
(*                                                                         *)
(* A JavaScript object used as a map (balances) is a sequence of           *)
(* [person, balance] records in key insertion order, which is the order    *)
(* Object.entries and Object.keys iterate in.                              *)
(***************************************************************************)
EXTENDS Integers, Sequences, FiniteSets, TLC

VARIABLES
    \* calculateSettlements (two-pointer), one call
    sBalances, debtors, creditors, i, j, settlements, spc,
    \* calculateGroupAnalytics, one call: the member list, the balances object,
    \* the element of expenses the forEach is at, the number of elements done,
    \* the returned analytics
    members, balances, expense, processed, analytics, bpc,
    \* the routers over the collections: the Group and Expense collections, the
    \* POST /api/expenses and DELETE /api/groups/:id requests in flight, the
    \* number of POST requests received, the last response sent
    Group, Expense, post, del, posts, res,
    \* two calls of a balance calculation on the same arguments: the function
    \* called, the expenses argument, the balance maps returned so far
    fn, expensesArg, returned,
    \* categorizeExpense, one call: the argument and the value returned
    title, category

settleVars == <<sBalances, debtors, creditors, i, j, settlements, spc>>

balanceVars == <<members, balances, expense, processed, analytics, bpc>>

apiVars == <<Group, Expense, post, del, posts, res>>

recomputeVars == <<fn, expensesArg, returned>>

categorizeVars == <<title, category>>

auxVars == <<recomputeVars, categorizeVars>>

vars == <<settleVars, balanceVars, apiVars, auxVars>>

-----------------------------------------------------------------------------
\* Bounds of the model

MaxSplitLen == 2
MaxKeys == 3
MaxAmount == 2
MaxExpenses == 2
MaxPosts == 2
MaxWords == 2

-----------------------------------------------------------------------------
\* Numbers

RECURSIVE GCD(_, _)
GCD(a, b) == IF b = 0 THEN a ELSE GCD(b, a % b)

RECURSIVE LCMUpTo(_)
LCMUpTo(n) == IF n <= 1 THEN 1 ELSE (LCMUpTo(n - 1) * n) \div GCD(LCMUpTo(n - 1), n)

\* ticks per 0.01
Scale == LCMUpTo(MaxSplitLen)

\* the literal 0.01 of the comparisons
Eps == Scale

MinHalf(a, b) == (IF a < b THEN a ELSE b) \div 2

Larger(a, b) == IF a < b THEN b ELSE a

Min(a, b) == IF a < b THEN a ELSE b

Abs(a) == IF a < 0 THEN -a ELSE a

RECURSIVE SumSeq(_)
SumSeq(s) == IF s = <<>> THEN 0 ELSE Head(s) + SumSeq(Tail(s))

\* member identifiers are opaque strings
Pool == <<"A", "B", "C", "D", "E", "F">>

-----------------------------------------------------------------------------
\* Objects used as maps

Keys(b) == {b[k].person : k \in DOMAIN b}

Has(b, p) == p \in Keys(b)

\* balances[p] || 0
Get(b, p) == IF Has(b, p) THEN b[CHOOSE k \in DOMAIN b : b[k].person = p].balance ELSE 0

\* balances[p] = v
Put(b, p, v) ==
    IF Has(b, p)
    THEN [k \in DOMAIN b |-> IF b[k].person = p THEN [person |-> p, balance |-> v] ELSE b[k]]
    ELSE Append(b, [person |-> p, balance |-> v])

\* the numbers of JavaScript that are not finite, as codes no balance reaches
PosInf == 1000000 * Scale

NegInf == -PosInf

NaN == PosInf + 1

NonFinite == {PosInf, NegInf, NaN}

\* x / n
JsDiv(x, n) == IF n = 0 THEN PosInf ELSE x \div n

\* x - y
JsSub(x, y) ==
    IF x = NaN \/ y = NaN THEN NaN
    ELSE IF y = PosInf THEN (IF x = PosInf THEN NaN ELSE NegInf)
    ELSE IF y = NegInf THEN (IF x = NegInf THEN NaN ELSE PosInf)
    ELSE IF x \in NonFinite THEN x
    ELSE x - y

-----------------------------------------------------------------------------
\* Expense records

\* customAmounts is a Map (a function on the members it has entries for) or
\* null; Null is kept apart from every Map by a key no member has
Null == [k \in {"null"} |-> 0]

\* customAmounts.get(member) || 0
CustomGet(customAmounts, member) ==
    IF member \in DOMAIN customAmounts THEN customAmounts[member] ELSE 0

-----------------------------------------------------------------------------
\* calculateGroupAnalytics: the balances

ReuseBalances(old) == old

\* const balances = {}: every invocation starts from a new object, whatever
\* object an earlier invocation built
NewBalances(old) == <<>>

\* members.forEach(member => { balances[member] = 0 })
RECURSIVE Seed(_, _)
Seed(b, ms) == IF ms = <<>> THEN b ELSE Seed(Put(b, Head(ms), 0), Tail(ms))

CreditPayerIfSeeded(b, e) ==
    IF Has(b, e.paidBy) THEN Put(b, e.paidBy, Get(b, e.paidBy) + e.amount) ELSE b

\* balances[expense.paidBy] = (balances[expense.paidBy] || 0) + expense.amount
CreditPayer(b, e) == Put(b, e.paidBy, Get(b, e.paidBy) + e.amount)

\* the members the custom branch debits: expense.splitAmong.forEach
CustomParticipants(e) == e.splitAmong

\* the custom branch: balances[member] = (balances[member] || 0) - amount
RECURSIVE DebitCustom(_, _, _)
DebitCustom(b, ms, customAmounts) ==
    IF ms = <<>> THEN b
    ELSE DebitCustom(Put(b, Head(ms), Get(b, Head(ms)) - CustomGet(customAmounts, Head(ms))),
                     Tail(ms), customAmounts)

\* the equal branch: balances[member] = (balances[member] || 0) - splitAmount
RECURSIVE DebitEqual(_, _, _)
DebitEqual(b, ms, splitAmount) ==
    IF ms = <<>> THEN b
    ELSE DebitEqual(Put(b, Head(ms), JsSub(Get(b, Head(ms)), splitAmount)),
                    Tail(ms), splitAmount)

SplitCountDistinct(e) == Cardinality({e.splitAmong[k] : k \in DOMAIN e.splitAmong})

\* expense.splitAmong.length
SplitCount(e) == Len(e.splitAmong)

\* expense.splitMethod === 'custom' && expense.customAmounts
TakesCustomBranch(e) == e.splitMethod = "custom" /\ e.customAmounts # Null

\* one iteration of expenses.forEach
ApplyExpense(b, e) ==
    IF TakesCustomBranch(e)
    THEN DebitCustom(CreditPayer(b, e), CustomParticipants(e), e.customAmounts)
    ELSE DebitEqual(CreditPayer(b, e), e.splitAmong,
                    JsDiv(e.amount, SplitCount(e)))

-----------------------------------------------------------------------------
\* calculateSettlements, the two-pointer version

IsDebtorLoose(balance) == balance <= -Eps

\* balance < -0.01
IsDebtor(balance) == balance < -Eps

IsCreditorLoose(balance) == balance >= Eps

\* else if (balance > 0.01)
IsCreditor(balance) == ~IsDebtor(balance) /\ balance > Eps

\* the debtors list after the forEach over Object.entries(balances)
DebtorsOf(b) ==
    LET neg == SelectSeq(b, LAMBDA e : IsDebtor(e.balance))
    IN  [k \in 1..Len(neg) |-> [person |-> neg[k].person, amount |-> -neg[k].balance]]

\* the creditors list after the forEach over Object.entries(balances)
CreditorsOf(b) ==
    LET pos == SelectSeq(b, LAMBDA e : IsCreditor(e.balance))
    IN  [k \in 1..Len(pos) |-> [person |-> pos[k].person, amount |-> pos[k].balance]]

SpentBelowZero(amount) == amount < 0

SpentAtZero(amount) == amount <= 0

\* debtors[i].amount < 0.01, creditors[j].amount < 0.01
Spent(amount) == amount < Eps

\* while (i < debtors.length && j < creditors.length)
LoopGuard(st) == st.i < Len(st.debtors) /\ st.j < Len(st.creditors)

\* one iteration of the while loop; i and j count from 0 as in the source
LoopBody(st) ==
    LET d == st.debtors[st.i + 1]
        c == st.creditors[st.j + 1]
        amount == Min(d.amount, c.amount)
        debtors2 == [st.debtors EXCEPT ![st.i + 1].amount = @ - amount]
        creditors2 == [st.creditors EXCEPT ![st.j + 1].amount = @ - amount]
    IN  [debtors |-> debtors2,
         creditors |-> creditors2,
         i |-> IF Spent(debtors2[st.i + 1].amount) THEN st.i + 1 ELSE st.i,
         j |-> IF Spent(creditors2[st.j + 1].amount) THEN st.j + 1 ELSE st.j,
         settlements |-> Append(st.settlements,
                                [from |-> d.person, to |-> c.person, amount |-> amount])]

RECURSIVE RunLoop(_)
RunLoop(st) == IF LoopGuard(st) THEN RunLoop(LoopBody(st)) ELSE st

\* the state at `let i = 0, j = 0`
LoopStart(b) ==
    [debtors |-> DebtorsOf(b), creditors |-> CreditorsOf(b),
     i |-> 0, j |-> 0, settlements |-> <<>>]

\* the returned list
calculateSettlements(b) == RunLoop(LoopStart(b)).settlements

-----------------------------------------------------------------------------
\* The analytics router: calculateBalances and the pairwise calculateSettlements

\* if (balances.hasOwnProperty(member)) balances[member] -= amount
DebitIfSeeded(b, member, amount) ==
    IF Has(b, member) THEN Put(b, member, JsSub(Get(b, member), amount)) ELSE b

\* for (const [member, amount] of expense.customAmounts)
RECURSIVE DebitEntries(_, _, _)
DebitEntries(b, customAmounts, left) ==
    IF left = {} THEN b
    ELSE LET member == CHOOSE m \in left : TRUE
         IN  DebitEntries(DebitIfSeeded(b, member, customAmounts[member]),
                          customAmounts, left \ {member})

\* expense.splitAmong.forEach of the equal split
RECURSIVE DebitShares(_, _, _)
DebitShares(b, ms, sharePerPerson) ==
    IF ms = <<>> THEN b
    ELSE DebitShares(DebitIfSeeded(b, Head(ms), sharePerPerson), Tail(ms), sharePerPerson)

\* the debits of one iteration of expenses.forEach in calculateBalances
DebitOneExpense(b, e) ==
    IF TakesCustomBranch(e)
    THEN DebitEntries(b, e.customAmounts, DOMAIN e.customAmounts)
    ELSE DebitShares(b, e.splitAmong, JsDiv(e.amount, Len(e.splitAmong)))

\* one iteration of expenses.forEach in calculateBalances
BalanceOneExpense(b, e) ==
    LET debited == DebitOneExpense(b, e)
    IN  IF Has(debited, e.paidBy)
        THEN Put(debited, e.paidBy, Get(debited, e.paidBy) + e.amount)
        ELSE debited

RECURSIVE BalanceAll(_, _)
BalanceAll(b, es) ==
    IF es = <<>> THEN b ELSE BalanceAll(BalanceOneExpense(b, Head(es)), Tail(es))

calculateBalances(es, ms) == BalanceAll(Seed(<<>>, ms), es)

\* the body of the inner loop for the pair (m1, m2) of key positions
PairStep(st, m1, m2) ==
    LET balance1 == st.balanceCopy[m1].balance
        balance2 == st.balanceCopy[m2].balance
        amount == Min(balance1, -balance2)
    IN  IF balance1 > Eps /\ balance2 < -Eps
        THEN [balanceCopy |->
                 [st.balanceCopy EXCEPT ![m1].balance = @ - amount,
                                        ![m2].balance = @ + amount],
              settlements |->
                 Append(st.settlements,
                        [from |-> st.balanceCopy[m2].person,
                         to |-> st.balanceCopy[m1].person, amount |-> amount])]
        ELSE st

\* for (i ...) for (j = i + 1 ...), from the pair (m1, m2) on
RECURSIVE PairLoop(_, _, _)
PairLoop(st, m1, m2) ==
    IF m1 > Len(st.balanceCopy) THEN st
    ELSE IF m2 > Len(st.balanceCopy) THEN PairLoop(st, m1 + 1, m1 + 2)
    ELSE PairLoop(PairStep(st, m1, m2), m1, m2 + 1)

calculateSettlementsPairwise(b) ==
    PairLoop([balanceCopy |-> b, settlements |-> <<>>], 1, 2).settlements

-----------------------------------------------------------------------------
\* categorizeExpense; a string is the sequence of its characters

UpperCase == 
    <<"A", "B", "C", "D", "E", "F", "G", "H", "I", "J", "K", "L", "M">> \o
    <<"N", "O", "P", "Q", "R", "S", "T", "U", "V", "W", "X", "Y", "Z">>

LowerCase == 
    <<"a", "b", "c", "d", "e", "f", "g", "h", "i", "j", "k", "l", "m">> \o
    <<"n", "o", "p", "q", "r", "s", "t", "u", "v", "w", "x", "y", "z">>

KeepCase(str) == str

\* title.toLowerCase()
toLowerCase(str) ==
    [k \in DOMAIN str |->
        IF \E n \in DOMAIN UpperCase : UpperCase[n] = str[k]
        THEN LowerCase[CHOOSE n \in DOMAIN UpperCase : UpperCase[n] = str[k]]
        ELSE str[k]]

\* str.includes(keyword)
includes(str, keyword) ==
    \E k \in 1..(Len(str) - Len(keyword) + 1) :
        SubSeq(str, k, k + Len(keyword) - 1) = keyword

categorizeExpense(t) ==
    LET lower == toLowerCase(t)
    IN  IF \/ includes(lower, <<"f", "o", "o", "d">>)
           \/ includes(lower, <<"d", "i", "n", "n", "e", "r">>)
           \/ includes(lower, <<"l", "u", "n", "c", "h">>)
           \/ includes(lower, <<"b", "r", "e", "a", "k", "f", "a", "s", "t">>)
        THEN "Food"
        ELSE IF \/ includes(lower, <<"r", "e", "n", "t">>)
           \/ includes(lower, <<"h", "o", "t", "e", "l">>)
        THEN "Housing"
        ELSE IF \/ includes(lower, <<"g", "r", "o", "c", "e", "r", "y">>)
           \/ includes(lower, <<"g", "r", "o", "c", "e", "r", "i", "e", "s">>)
           \/ includes(lower, <<"v", "e", "g", "e", "t", "a", "b", "l", "e">>)
        THEN "Groceries"
        ELSE IF \/ includes(lower, <<"t", "r", "a", "n", "s", "p", "o", "r", "t">>)
           \/ includes(lower, <<"u", "b", "e", "r">>)
           \/ includes(lower, <<"t", "a", "x", "i">>)
        THEN "Transport"
        ELSE IF \/ includes(lower, <<"m", "o", "v", "i", "e">>)
           \/ includes(lower, <<"e", "n", "t", "e", "r", "t", "a", "i", "n", "m", "e", "n", "t">>)
        THEN "Entertainment"
        ELSE "Other"

-----------------------------------------------------------------------------
\* The inputs the model draws from

Names == {"A", "B", "C"}

MemberLists == {<<"A", "B">>, <<"A", "B", "C">>}

\* amounts of whole hundredths, in ticks
Amounts == {c * Scale : c \in 1..MaxAmount}

SplitLists == UNION {[1..n -> Names] : n \in 0..MaxSplitLen}

SumMap(f) ==
    LET RECURSIVE SumOver(_)
        SumOver(S) == IF S = {} THEN 0
                      ELSE LET x == CHOOSE y \in S : TRUE IN f[x] + SumOver(S \ {x})
    IN  SumOver(DOMAIN f)

CustomMaps ==
    {f \in UNION {[S -> Amounts] : S \in SUBSET Names} : SumMap(f) <= MaxAmount * Scale}

Expenses ==
    [amount : Amounts, paidBy : Names, splitAmong : SplitLists,
     splitMethod : {"equal"}, customAmounts : {Null}]
    \cup
    [amount : Amounts, paidBy : Names, splitAmong : SplitLists,
     splitMethod : {"custom"}, customAmounts : CustomMaps \cup {Null}]

NoExpense ==
    [amount |-> 0, paidBy |-> "", splitAmong |-> <<>>, splitMethod |-> "",
     customAmounts |-> Null]

NoAnalytics == [balances |-> <<>>, settlements |-> <<>>]

\* the one group of the router model and its members
GroupId == "g1"

TheGroup == [id |-> GroupId, members |-> <<"A", "B">>]

\* a splitAmong that the request body does not carry (undefined), kept apart
\* from every list of members
Undefined == <<"undefined">>

ApiAmounts == {0, Scale - 1, Scale}

ApiSplitLists == UNION {[1..n -> {"A", "B"}] : n \in 0..1} \cup {<<"A", "B">>}

ApiCustomMaps == UNION {[S -> {Scale - 1, Scale}] : S \in SUBSET {"A", "B"}}

\* request bodies of POST /api/expenses; "" is a missing string field
Bodies ==
    [groupId : {"", GroupId}, title : {"", "rent"}, amount : ApiAmounts,
     paidBy : {"", "A"}, date : {"", "d"},
     splitAmong : ApiSplitLists \cup {Undefined},
     splitMethod : {"", "equal", "custom"},
     customAmounts : ApiCustomMaps \cup {Null}]

NoBody ==
    [groupId |-> "", title |-> "", amount |-> 0, paidBy |-> "", date |-> "",
     splitAmong |-> Undefined, splitMethod |-> "", customAmounts |-> Null]

Response(status) ==
    [status |-> status, expenses |-> <<>>, balances |-> <<>>, settlements |-> <<>>]

SettleIdle ==
    /\ sBalances = <<>>
    /\ debtors = <<>>
    /\ creditors = <<>>
    /\ i = 0
    /\ j = 0
    /\ settlements = <<>>
    /\ spc = "idle"

ApiIdle ==
    /\ Group = {}
    /\ Expense = <<>>
    /\ post = [pc |-> "idle", body |-> NoBody]
    /\ del = "idle"
    /\ posts = 0
    /\ res = Response(0)

RecomputeIdle ==
    /\ fn = ""
    /\ expensesArg = <<>>
    /\ returned = <<>>

CategorizeIdle ==
    /\ title = <<>>
    /\ category = ""

AuxIdle == RecomputeIdle /\ CategorizeIdle

BalanceIdle ==
    /\ members = <<>>
    /\ balances = <<>>
    /\ expense = NoExpense
    /\ processed = 0
    /\ analytics = NoAnalytics
    /\ bpc = "idle"

-----------------------------------------------------------------------------
\* One call of calculateSettlements, an iteration of the loop per step

\* balances a caller can pass: dead-zone values, the boundary, and beyond it
BalVals == {0, 1, -1, Eps, -Eps, Eps + 1, -(Eps + 1), 2 * Eps, -(2 * Eps),
            2 * Eps + 1, -(2 * Eps + 1)}

\* the balance map with the values f over the first names of Pool as keys;
\* every order of values over the keys occurs
BalanceMap(f) == [k \in DOMAIN f |-> [person |-> Pool[k], balance |-> f[k]]]

SettleState == [debtors |-> debtors, creditors |-> creditors, i |-> i, j |-> j,
                settlements |-> settlements]

SettleInit ==
    /\ BalanceIdle
    /\ ApiIdle
    /\ AuxIdle
    /\ \E n \in 1..MaxKeys : \E f \in [1..n -> BalVals] : sBalances = BalanceMap(f)
    /\ debtors = <<>>
    /\ creditors = <<>>
    /\ i = 0
    /\ j = 0
    /\ settlements = <<>>
    /\ spc = "partition"

SettlePartition ==
    /\ spc = "partition"
    /\ debtors' = DebtorsOf(sBalances)
    /\ creditors' = CreditorsOf(sBalances)
    /\ spc' = "loop"
    /\ UNCHANGED <<sBalances, i, j, settlements, balanceVars, apiVars, auxVars>>

SettleStep ==
    /\ spc = "loop"
    /\ LoopGuard(SettleState)
    /\ LET st == LoopBody(SettleState)
       IN  /\ debtors' = st.debtors
           /\ creditors' = st.creditors
           /\ i' = st.i
           /\ j' = st.j
           /\ settlements' = st.settlements
    /\ UNCHANGED <<sBalances, spc, balanceVars, apiVars, auxVars>>

SettleReturn ==
    /\ spc = "loop"
    /\ ~LoopGuard(SettleState)
    /\ spc' = "done"
    /\ UNCHANGED <<sBalances, debtors, creditors, i, j, settlements, balanceVars, apiVars, auxVars>>

SettleNext == SettlePartition \/ SettleStep \/ SettleReturn

SpecSettle == SettleInit /\ [][SettleNext]_vars

\* the call runs to its return: nothing suspends a synchronous function
SpecSettleLive == SettleInit /\ [][SettleNext]_vars /\ WF_vars(SettleNext)

-----------------------------------------------------------------------------
\* One call of the analytics router's pairwise calculateSettlements

PairwiseInit ==
    /\ BalanceIdle
    /\ ApiIdle
    /\ AuxIdle
    /\ \E n \in 1..MaxKeys : \E f \in [1..n -> BalVals] : sBalances = BalanceMap(f)
    /\ debtors = <<>>
    /\ creditors = <<>>
    /\ i = 0
    /\ j = 0
    /\ settlements = <<>>
    /\ spc = "pairwise"

\* the call, from the copy of balances to `return settlements`
PairwiseReturn ==
    /\ spc = "pairwise"
    /\ settlements' = calculateSettlementsPairwise(sBalances)
    /\ spc' = "pairwiseDone"
    /\ UNCHANGED <<sBalances, debtors, creditors, i, j, balanceVars, apiVars, auxVars>>

PairwiseNext == PairwiseReturn

SpecPairwise == PairwiseInit /\ [][PairwiseNext]_vars

-----------------------------------------------------------------------------
\* One call of calculateGroupAnalytics, an element of expenses per step

BalanceInit ==
    /\ SettleIdle
    /\ ApiIdle
    /\ AuxIdle
    /\ members \in MemberLists
    /\ balances = <<>>
    /\ expense = NoExpense
    /\ processed = 0
    /\ analytics = NoAnalytics
    /\ bpc = "seed"

BalanceSeed ==
    /\ bpc = "seed"
    /\ balances' = Seed(balances, members)
    /\ bpc' = "expenses"
    /\ UNCHANGED <<members, expense, processed, analytics, settleVars, apiVars, auxVars>>

BalanceExpense ==
    /\ bpc = "expenses"
    /\ processed < MaxExpenses
    /\ \E e \in Expenses :
        /\ expense' = e
        /\ balances' = ApplyExpense(balances, e)
    /\ processed' = processed + 1
    /\ UNCHANGED <<members, analytics, bpc, settleVars, apiVars, auxVars>>

BalanceReturn ==
    /\ bpc = "expenses"
    /\ analytics' = [balances |-> balances, settlements |-> calculateSettlements(balances)]
    /\ bpc' = "done"
    /\ UNCHANGED <<members, balances, expense, processed, settleVars, apiVars, auxVars>>

BalanceNext == BalanceSeed \/ BalanceExpense \/ BalanceReturn

SpecBalance == BalanceInit /\ [][BalanceNext]_vars

-----------------------------------------------------------------------------
\* Two calls, one after the other, of calculateGroupAnalytics or of the
\* analytics router's calculateBalances on the same expenses and members

Functions == {"calculateGroupAnalytics", "calculateBalances"}

\* expense records of the largest amount, paid by a member or by an outsider
\* of the two-member list, with custom amounts that sum to the amount
RecomputeExpenses ==
    {e \in Expenses :
        /\ e.amount = MaxAmount * Scale
        /\ e.paidBy \in {"A", "C"}
        /\ Len(e.splitAmong) >= 1
        /\ \A k \in DOMAIN e.splitAmong : e.splitAmong[k] \in {"B", "C"}
        /\ e.customAmounts # Null =>
            /\ DOMAIN e.customAmounts \subseteq {"B", "C"}
            /\ SumMap(e.customAmounts) = e.amount}

RecomputeInit ==
    /\ SettleIdle
    /\ ApiIdle
    /\ CategorizeIdle
    /\ fn \in Functions
    /\ members \in MemberLists
    /\ expensesArg \in UNION {[1..n -> RecomputeExpenses] : n \in 0..MaxExpenses}
    /\ returned = <<>>
    /\ balances = <<>>
    /\ expense = NoExpense
    /\ processed = 0
    /\ analytics = NoAnalytics
    /\ bpc = "call"

\* entry of a call: the new balances object and its seeding
RecomputeSeed ==
    /\ bpc = "call"
    /\ Len(returned) < 2
    /\ balances' = Seed(NewBalances(balances), members)
    /\ processed' = 0
    /\ bpc' = "forEach"
    /\ UNCHANGED <<members, expense, analytics, fn, expensesArg, returned,
                   categorizeVars, settleVars, apiVars>>

\* one iteration of expenses.forEach of the function called
RecomputeExpense ==
    /\ bpc = "forEach"
    /\ processed < Len(expensesArg)
    /\ expense' = expensesArg[processed + 1]
    /\ balances' = IF fn = "calculateGroupAnalytics"
                   THEN ApplyExpense(balances, expensesArg[processed + 1])
                   ELSE BalanceOneExpense(balances, expensesArg[processed + 1])
    /\ processed' = processed + 1
    /\ UNCHANGED <<members, analytics, bpc, fn, expensesArg, returned,
                   categorizeVars, settleVars, apiVars>>

\* the rest of the call: neither function writes to expenses or members
RecomputeReturn ==
    /\ bpc = "forEach"
    /\ processed = Len(expensesArg)
    /\ returned' = Append(returned, balances)
    /\ analytics' = IF fn = "calculateGroupAnalytics"
                    THEN [balances |-> balances,
                          settlements |-> calculateSettlements(balances)]
                    ELSE analytics
    /\ bpc' = "call"
    /\ UNCHANGED <<members, balances, expense, processed, fn, expensesArg,
                   categorizeVars, settleVars, apiVars>>

RecomputeNext == RecomputeSeed \/ RecomputeExpense \/ RecomputeReturn

SpecRecompute == RecomputeInit /\ [][RecomputeNext]_vars

-----------------------------------------------------------------------------
\* One call of categorizeExpense

\* words of a title, in mixed case, with every keyword of the function among
\* them, a keyword inside a longer word, and a word without a keyword
Words ==
    {<<"D", "i", "n", "n", "e", "r">>,
     <<"L", "U", "N", "C", "H">>,
     <<"s", "e", "a", "f", "o", "o", "d">>,
     <<"B", "r", "e", "a", "k", "f", "a", "s", "t">>,
     <<"R", "e", "n", "t">>,
     <<"h", "o", "t", "e", "l">>,
     <<"p", "a", "r", "e", "n", "t">>,
     <<"G", "r", "o", "c", "e", "r", "y">>,
     <<"g", "r", "o", "c", "e", "r", "i", "e", "s">>,
     <<"v", "e", "g", "e", "t", "a", "b", "l", "e">>,
     <<"T", "r", "a", "n", "s", "p", "o", "r", "t">>,
     <<"u", "b", "e", "r">>,
     <<"T", "A", "X", "I">>,
     <<"M", "o", "v", "i", "e">>,
     <<"e", "n", "t", "e", "r", "t", "a", "i", "n", "m", "e", "n", "t">>,
     <<"g", "i", "f", "t">>}

RECURSIVE TitlesOf(_)
TitlesOf(n) ==
    IF n = 1 THEN Words
    ELSE {t \o <<" ">> \o w : t \in TitlesOf(n - 1), w \in Words}

Titles == UNION {TitlesOf(n) : n \in 1..MaxWords}

CategorizeInit ==
    /\ SettleIdle
    /\ BalanceIdle
    /\ ApiIdle
    /\ RecomputeIdle
    /\ title \in Titles
    /\ category = ""

Categorize ==
    /\ category = ""
    /\ category' = categorizeExpense(title)
    /\ UNCHANGED <<title, recomputeVars, settleVars, balanceVars, apiVars>>

CategorizeNext == Categorize

SpecCategorize == CategorizeInit /\ [][CategorizeNext]_vars

-----------------------------------------------------------------------------
\* The expenses, groups and analytics routers over the two collections

\* !groupId || !title || !amount || !paidBy || !date || !splitAmong
MissingField(body) ==
    \/ body.groupId = ""
    \/ body.title = ""
    \/ body.amount = 0
    \/ body.paidBy = ""
    \/ body.date = ""
    \/ body.splitAmong = Undefined

\* Group.findOne({ _id: groupId, ... }) finds a group
GroupFound(id) == \E g \in Group : g.id = id

CustomSumOffLoose(body) == Abs(SumMap(body.customAmounts) - body.amount) > Eps

\* Math.abs(totalCustom - amount) >= 0.01
CustomSumOff(body) == Abs(SumMap(body.customAmounts) - body.amount) >= Eps

\* the schema's validation in Expense.create: amount has min 0.01
SchemaRejects(body) == body.amount < Eps

\* the document Expense.create stores
StoredDoc(body) ==
    [groupId |-> body.groupId, title |-> body.title, amount |-> body.amount,
     paidBy |-> body.paidBy, splitAmong |-> body.splitAmong,
     splitMethod |-> IF body.splitMethod = "" THEN "equal" ELSE body.splitMethod,
     customAmounts |-> IF body.splitMethod = "custom" THEN body.customAmounts ELSE Null]

\* POST /api/expenses up to the return of `await Group.findOne`
PostFindGroup ==
    /\ post.pc = "idle"
    /\ posts < MaxPosts
    /\ posts' = posts + 1
    /\ \E body \in Bodies :
        IF MissingField(body)
        THEN res' = Response(400) /\ UNCHANGED post
        ELSE IF ~GroupFound(body.groupId)
        THEN res' = Response(404) /\ UNCHANGED post
        ELSE post' = [pc |-> "found", body |-> body] /\ UNCHANGED res
    /\ UNCHANGED <<Group, Expense, del, settleVars, balanceVars, auxVars>>

\* POST /api/expenses from there to the response
PostCreate ==
    /\ post.pc = "found"
    /\ post' = [pc |-> "idle", body |-> NoBody]
    /\ IF post.body.splitMethod = "custom" /\ post.body.customAmounts = Null
       THEN res' = Response(400) /\ UNCHANGED Expense
       ELSE IF post.body.splitMethod = "custom" /\ CustomSumOff(post.body)
       THEN res' = Response(400) /\ UNCHANGED Expense
       ELSE IF SchemaRejects(post.body)
       THEN res' = Response(500) /\ UNCHANGED Expense
       ELSE /\ Expense' = Append(Expense, StoredDoc(post.body))
            /\ res' = Response(201)
    /\ UNCHANGED <<Group, del, posts, settleVars, balanceVars, auxVars>>

\* DELETE /api/expenses/:id for the document at position id, or for no document
DeleteExpense ==
    /\ \E id \in 1..(Len(Expense) + 1) :
        IF id > Len(Expense)
        THEN res' = Response(404) /\ UNCHANGED Expense
        ELSE IF ~GroupFound(Expense[id].groupId)
        THEN res' = Response(403) /\ UNCHANGED Expense
        ELSE /\ Expense' = [k \in 1..(Len(Expense) - 1) |->
                                IF k < id THEN Expense[k] ELSE Expense[k + 1]]
             /\ res' = Response(200)
    /\ UNCHANGED <<Group, post, del, posts, settleVars, balanceVars, auxVars>>

\* DELETE /api/groups/:id up to the return of `await Group.findOneAndDelete`
DeleteGroupFind ==
    /\ del = "idle"
    /\ IF GroupFound(GroupId)
       THEN /\ Group' = {g \in Group : g.id # GroupId}
            /\ del' = "deleted"
            /\ UNCHANGED res
       ELSE /\ res' = Response(404)
            /\ UNCHANGED <<Group, del>>
    /\ UNCHANGED <<Expense, post, posts, settleVars, balanceVars, auxVars>>

\* DELETE /api/groups/:id from there: Expense.deleteMany and the response
DeleteGroupExpenses ==
    /\ del = "deleted"
    /\ Expense' = SelectSeq(Expense, LAMBDA e : e.groupId # GroupId)
    /\ del' = "idle"
    /\ res' = Response(200)
    /\ UNCHANGED <<Group, post, posts, settleVars, balanceVars, auxVars>>

\* GET /api/analytics/group/:groupId
GetGroupAnalytics ==
    /\ IF ~GroupFound(GroupId)
       THEN res' = Response(404)
       ELSE LET group == CHOOSE g \in Group : g.id = GroupId
                expenses == SelectSeq(Expense, LAMBDA e : e.groupId = GroupId)
                b == calculateBalances(expenses, group.members)
            IN  res' = [status |-> 200, expenses |-> expenses, balances |-> b,
                        settlements |-> calculateSettlementsPairwise(b)]
    /\ UNCHANGED <<Group, Expense, post, del, posts, settleVars, balanceVars, auxVars>>

ApiInit ==
    /\ SettleIdle
    /\ BalanceIdle
    /\ AuxIdle
    /\ Group = {TheGroup}
    /\ Expense = <<>>
    /\ post = [pc |-> "idle", body |-> NoBody]
    /\ del = "idle"
    /\ posts = 0
    /\ res = Response(0)

ApiNext ==
    \/ PostFindGroup
    \/ PostCreate
    \/ DeleteExpense
    \/ DeleteGroupFind
    \/ DeleteGroupExpenses
    \/ GetGroupAnalytics

SpecApi == ApiInit /\ [][ApiNext]_vars

-----------------------------------------------------------------------------
\* Properties of calculateSettlements (two-pointer)

SumBalances(b) == SumSeq([k \in DOMAIN b |-> b[k].balance])

ZeroSum(b) == SumBalances(b) = 0

\* what p has paid as `from`, and received as `to`, in the list l
PaidBy(l, p) == SumSeq([k \in DOMAIN l |-> IF l[k].from = p THEN l[k].amount ELSE 0])

ReceivedBy(l, p) == SumSeq([k \in DOMAIN l |-> IF l[k].to = p THEN l[k].amount ELSE 0])

\* the balance of p once every settlement of l has been paid
Residual(b, l, p) == Get(b, p) + PaidBy(l, p) - ReceivedBy(l, p)

InDeadZone(balance) == -Eps <= balance /\ balance <= Eps

NumDebtors(b) == Cardinality({k \in DOMAIN b : b[k].balance < -Eps})

NumCreditors(b) == Cardinality({k \in DOMAIN b : b[k].balance > Eps})

\* the same member-to-balance pairs in every key order
KeyOrders(b) == {[k \in DOMAIN b |-> b[f[k]]] : f \in Permutations(DOMAIN b)}

\* C2 (as claimed): for a balance map that sums to 0, paying every returned
\* settlement leaves every member within 0.01 of zero.
C2_SettlementCorrect ==
    (spc = "done" /\ ZeroSum(sBalances)) =>
        \A k \in DOMAIN sBalances :
            Abs(Residual(sBalances, settlements, sBalances[k].person)) <= Eps

\* C5: a member whose balance lies in [-0.01, 0.01] is never the `from` or the
\* `to` of a settlement.
C5_DeadZoneNoOp ==
    \A k \in DOMAIN sBalances :
        InDeadZone(sBalances[k].balance) =>
            \A n \in DOMAIN settlements :
                /\ settlements[n].from # sBalances[k].person
                /\ settlements[n].to # sBalances[k].person

C5_Witness ==
    /\ spc = "done"
    /\ Len(settlements) >= 1
    /\ \E k \in DOMAIN sBalances : Abs(sBalances[k].balance) = Eps

\* C8: at most |debtors| + |creditors| - 1 settlements are emitted, and none
\* when there is no debtor or no creditor.
C8_TransferBound ==
    IF NumDebtors(sBalances) = 0 \/ NumCreditors(sBalances) = 0
    THEN Len(settlements) = 0
    ELSE Len(settlements) <= NumDebtors(sBalances) + NumCreditors(sBalances) - 1

C8_Witness ==
    /\ spc = "done"
    /\ NumDebtors(sBalances) >= 2
    /\ NumCreditors(sBalances) >= 1
    /\ Len(settlements) = NumDebtors(sBalances) + NumCreditors(sBalances) - 1

\* C9 (as claimed): for a balance map that sums to 0, the loop ends with both
\* cursors at the end of their lists.
C9_BothExhausted ==
    (spc = "done" /\ ZeroSum(sBalances)) =>
        (i = Len(debtors) /\ j = Len(creditors))

\* C10 (as claimed): every key order of the same balances gives the same
\* number of settlements.
C10_SameCount ==
    spc = "done" =>
        \A b \in KeyOrders(sBalances) :
            Len(calculateSettlements(b)) = Len(settlements)

\* C10 (amended): in every key order of the same balances the number of
\* settlements is 0 when there is no debtor or no creditor, and otherwise lies
\* between min(|debtors|, |creditors|) and |debtors| + |creditors| - 1; the
\* number itself may differ between two orders.
C10_CountRange ==
    spc = "done" =>
        \A b \in KeyOrders(sBalances) :
            LET n == Len(calculateSettlements(b))
                nd == NumDebtors(sBalances)
                nc == NumCreditors(sBalances)
            IN  IF nd = 0 \/ nc = 0
                THEN n = 0
                ELSE Min(nd, nc) <= n /\ n <= nd + nc - 1

C10_Witness ==
    /\ spc = "done"
    /\ \E b \in KeyOrders(sBalances) :
            Len(calculateSettlements(b)) # Len(settlements)

\* C11: every settlement has a positive amount, goes from a member whose
\* input balance is below -0.01 to a different member whose input balance is
\* above 0.01, and whenever the loop runs an iteration the current debtor and
\* the current creditor both have at least 0.01 left.
C11_SettlementFields ==
    /\ \A n \in DOMAIN settlements :
        /\ settlements[n].amount > 0
        /\ Has(sBalances, settlements[n].from)
        /\ Has(sBalances, settlements[n].to)
        /\ Get(sBalances, settlements[n].from) < -Eps
        /\ Get(sBalances, settlements[n].to) > Eps
        /\ settlements[n].from # settlements[n].to
    /\ (spc = "loop" /\ i < Len(debtors) /\ j < Len(creditors)) =>
        /\ debtors[i + 1].amount >= Eps
        /\ creditors[j + 1].amount >= Eps

C11_Witness ==
    /\ spc = "loop"
    /\ i < Len(debtors)
    /\ j < Len(creditors)
    /\ Len(settlements) >= 1
    /\ debtors[i + 1].amount < -Get(sBalances, debtors[i + 1].person)

\* C16: the loop ends for every balance map: every iteration moves the debtor
\* cursor, the creditor cursor or both forward and neither ever moves back, and
\* the call reaches its return.
C16_LoopTerminates ==
    /\ [][(spc = "loop" /\ spc' = "loop") =>
            (i' >= i /\ j' >= j /\ i' + j' > i + j)]_vars
    /\ <>(spc = "done")

C16_Witness ==
    /\ spc = "done"
    /\ Len(settlements) = 2
    /\ i + j = 3

\* C18: no remaining amount of a debtor or creditor is ever negative, and
\* the settlements emitted so far never have a member pay more than its
\* initial debt or receive more than its initial credit.
C18_NoOverPayment ==
    /\ \A k \in DOMAIN debtors : debtors[k].amount >= 0
    /\ \A k \in DOMAIN creditors : creditors[k].amount >= 0
    /\ \A k \in DOMAIN sBalances :
        LET p == sBalances[k].person
            bal == sBalances[k].balance
        IN  /\ PaidBy(settlements, p) <= (IF bal < 0 THEN -bal ELSE 0)
            /\ ReceivedBy(settlements, p) <= (IF bal > 0 THEN bal ELSE 0)

C18_Witness ==
    /\ spc = "done"
    /\ \E k \in DOMAIN sBalances :
        /\ sBalances[k].balance < -Eps
        /\ PaidBy(settlements, sBalances[k].person) = -sBalances[k].balance
        /\ Cardinality({n \in DOMAIN settlements :
                            settlements[n].from = sBalances[k].person}) = 2

\* C15 (as claimed): for a balance map that sums to 0, in whatever key order,
\* paying every settlement the pairwise calculateSettlements returns leaves
\* every member within 0.01 of zero.
C15_PairwiseCorrect ==
    (spc = "pairwiseDone" /\ ZeroSum(sBalances)) =>
        \A k \in DOMAIN sBalances :
            Abs(Residual(sBalances, settlements, sBalances[k].person)) <= Eps

-----------------------------------------------------------------------------
\* Properties of the balances of calculateGroupAnalytics

Range(q) == {q[k] : k \in DOMAIN q}

Occurrences(q, x) == Cardinality({k \in DOMAIN q : q[k] = x})

\* the forEach over expenses has just done one more element
ExpenseStep == processed' = processed + 1

\* an expense record as the data model wants it, for the member list ms
ValidExpense(e, ms) ==
    /\ e.paidBy \in Range(ms)
    /\ Range(e.splitAmong) \subseteq Range(ms)
    /\ Len(e.splitAmong) >= 1
    /\ e.amount > 0
    /\ TakesCustomBranch(e) =>
        /\ DOMAIN e.customAmounts \subseteq Range(ms)
        /\ SumMap(e.customAmounts) = e.amount

\* C1 (as claimed): the balances sum to 0 after each expense, when every
\* expense has its payer and participants among the members, a non-empty
\* splitAmong and custom amounts that sum to the amount.
C1_ZeroSum ==
    [][(ExpenseStep /\ ValidExpense(expense', members) /\ ZeroSum(balances))
            => ZeroSum(balances')]_vars

\* C4 (as claimed): the key set of the returned balance map is exactly the
\* set of members, whatever the expenses.
C4_KeysAreMembers ==
    bpc = "done" => Keys(analytics.balances) = Range(members)

\* C4 (amended): the key set of the returned balance map is the set of
\* members together with the paidBy and the splitAmong entries of the expenses:
\* seeding gives exactly the members, each expense adds its payer and its
\* participants and nothing else, and the map returned is the map built.
C4_KeysAreMembersAndParties ==
    [][/\ (bpc = "seed" /\ bpc' = "expenses") => Keys(balances') = Range(members)
       /\ ExpenseStep =>
            Keys(balances') =
                Keys(balances) \cup {expense'.paidBy} \cup Range(expense'.splitAmong)
       /\ (bpc = "expenses" /\ bpc' = "done") => analytics'.balances = balances]_vars

C4_Witness ==
    /\ bpc = "done"
    /\ processed = MaxExpenses
    /\ Range(members) \subseteq Keys(analytics.balances)
    /\ expense.paidBy \notin Range(members)
    /\ expense.paidBy \in Keys(analytics.balances)

\* C6 (as claimed): a custom-split expense debits every member that has an
\* entry in customAmounts by that entry, once, listed in splitAmong or not,
\* and credits the payer with the full amount.
C6_CustomSplit ==
    [][(ExpenseStep /\ TakesCustomBranch(expense'))
            => \A m \in Names :
                Get(balances', m) - Get(balances, m) =
                    (IF m = expense'.paidBy THEN expense'.amount ELSE 0)
                        - CustomGet(expense'.customAmounts, m)]_vars

\* C7: an equal-split expense of amount A over a splitAmong of length n >= 1
\* credits the payer with A and debits a member A/n per occurrence in
\* splitAmong (stated times n, so that no division is needed).
C7_EqualSplit ==
    [][(ExpenseStep /\ ~TakesCustomBranch(expense') /\ Len(expense'.splitAmong) >= 1)
            => \A m \in Names :
                Len(expense'.splitAmong) * (Get(balances', m) - Get(balances, m)) =
                    Len(expense'.splitAmong)
                            * (IF m = expense'.paidBy THEN expense'.amount ELSE 0)
                        - Occurrences(expense'.splitAmong, m) * expense'.amount]_vars

C7_Witness ==
    /\ bpc = "expenses"
    /\ processed = MaxExpenses
    /\ expense.splitMethod = "equal"
    /\ Len(expense.splitAmong) = MaxSplitLen
    /\ \E m \in Names :
        /\ m # expense.paidBy
        /\ Occurrences(expense.splitAmong, m) = MaxSplitLen
        /\ Get(balances, m) < 0

\* C13: two calls of a balance calculation on the same expenses and members
\* return identical balance maps, and no step of a call changes the expenses
\* or the members.
C13_Idempotent ==
    /\ [](Len(returned) = 2 => returned[1] = returned[2])
    /\ [][expensesArg' = expensesArg /\ members' = members]_vars

C13_Witness ==
    /\ Len(returned) = 2
    /\ Len(expensesArg) = MaxExpenses
    /\ fn = "calculateGroupAnalytics"
    /\ \E k \in DOMAIN returned[2] :
        /\ returned[2][k].person \notin Range(members)
        /\ returned[2][k].balance # 0

\* C14 (as claimed): calculateBalances of the analytics router adds the full
\* amount of every expense to the balance kept for paidBy, seeded member or
\* not.
C14_PayerCredited ==
    [][(ExpenseStep /\ fn = "calculateBalances") =>
            /\ Has(balances', expense'.paidBy)
            /\ Get(balances', expense'.paidBy) =
                    Get(DebitOneExpense(balances, expense'), expense'.paidBy)
                        + expense'.amount]_vars

-----------------------------------------------------------------------------
\* Properties of the routers

EmptyEqualSplit(e) == ~TakesCustomBranch(e) /\ e.splitAmong = <<>>

\* C3 (as claimed): an equal-split expense with an empty splitAmong is
\* rejected: POST /api/expenses stores no such record, no analytics response
\* carries balances computed from one, and no returned balance is NaN or
\* Infinity.
C3_EmptySplitRejected ==
    /\ \A k \in DOMAIN Expense : ~EmptyEqualSplit(Expense[k])
    /\ \A k \in DOMAIN res.expenses : ~EmptyEqualSplit(res.expenses[k])
    /\ \A k \in DOMAIN res.balances : res.balances[k].balance \notin NonFinite

C19_NoOrphanAfterDelete ==
    (~GroupFound(GroupId) /\ del = "idle") =>
        \A k \in DOMAIN Expense : Expense[k].groupId # GroupId

-----------------------------------------------------------------------------
\* Properties of categorizeExpense

\* the keyword groups in the order they are tested
KeywordTable ==
    <<[category |-> "Food",
      keywords |-> {<<"f", "o", "o", "d">>,
                    <<"d", "i", "n", "n", "e", "r">>,
                    <<"l", "u", "n", "c", "h">>,
                    <<"b", "r", "e", "a", "k", "f", "a", "s", "t">>}],
     [category |-> "Housing",
      keywords |-> {<<"r", "e", "n", "t">>,
                    <<"h", "o", "t", "e", "l">>}],
     [category |-> "Groceries",
      keywords |-> {<<"g", "r", "o", "c", "e", "r", "y">>,
                    <<"g", "r", "o", "c", "e", "r", "i", "e", "s">>,
                    <<"v", "e", "g", "e", "t", "a", "b", "l", "e">>}],
     [category |-> "Transport",
      keywords |-> {<<"t", "r", "a", "n", "s", "p", "o", "r", "t">>,
                    <<"u", "b", "e", "r">>,
                    <<"t", "a", "x", "i">>}],
     [category |-> "Entertainment",
      keywords |-> {<<"m", "o", "v", "i", "e">>,
                    <<"e", "n", "t", "e", "r", "t", "a", "i", "n", "m", "e", "n", "t">>}]>>

Categories == {"Food", "Housing", "Groceries", "Transport", "Entertainment", "Other"}

SameLetter(a, b) ==
    \/ a = b
    \/ \E n \in DOMAIN UpperCase : {a, b} = {UpperCase[n], LowerCase[n]}

\* keyword occurs in t as a substring, letter case ignored
Occurs(keyword, t) ==
    \E k \in 1..(Len(t) - Len(keyword) + 1) :
        \A n \in DOMAIN keyword : SameLetter(t[k + n - 1], keyword[n])

MatchingGroups(t) ==
    {g \in DOMAIN KeywordTable : \E keyword \in KeywordTable[g].keywords : Occurs(keyword, t)}

FirstMatch(t) ==
    IF MatchingGroups(t) = {} THEN "Other"
    ELSE KeywordTable[CHOOSE g \in MatchingGroups(t) :
                        \A h \in MatchingGroups(t) : g <= h].category

\* C17: categorizeExpense returns the category of the first group, in the
\* order Food, Housing, Groceries, Transport, Entertainment, one of whose
\* keywords occurs in the title as a substring with letter case ignored, and
\* Other when no keyword occurs; the result is one of the six categories.
C17_FirstMatchWins ==
    category # "" => (category = FirstMatch(title) /\ category \in Categories)

C17_Witness ==
    /\ category = "Food"
    /\ Cardinality(MatchingGroups(title)) >= 2
    /\ title # toLowerCase(title)

====
